---------------------------- MODULE Spec2Model ----------------------------
(***************************************************************************)
(* F1 data collection (src/src/data_collection.py): the retrying Transport *)
(* (F1DataCollector._make_request), the endpoint adapters built on it and  *)
(* the season orchestrator (collect_season_data).                          *)
(*                                                                         *)
(* JSON values are tagged records, so that values of different Python      *)
(* types can be told apart:  None/null, str, int, dict and list.           *)
(***************************************************************************)
EXTENDS Integers, Sequences, FiniteSets, TLC

VARIABLES
    mr,       \* the frame of a direct call of F1DataCollector._make_request
    ad,       \* the frame of a direct call of one endpoint adapter
    season    \* the frame of collect_season_data

vars == <<mr, ad, season>>

---------------------------------------------------------------------------
(* Bounds of the model                                                     *)

\* max_retries of a direct _make_request call ranges over 0..MaxRetriesBound
MaxRetriesBound == 4
\* a well-formed Ergast payload has at most MaxRaces races (standings lists)
MaxRaces == 2
\* and each race (standings list) at most MaxResults entries
MaxResults == 2
\* a sessions payload lists at most MaxSessions sessions
MaxSessions == 4

---------------------------------------------------------------------------
(* Program constants                                                       *)

\* max_retries: int = 3
DefaultMaxRetries == 3
\* race_sessions.head(3)
SampledSessions == 3
\* time.sleep(1)  # Rate limiting
RateLimitPause == 1
\* for year in [2023, 2024]
Years == {2023, 2024}

---------------------------------------------------------------------------
(* JSON values                                                             *)

Null == [t |-> "null"]
Str(s) == [t |-> "str", v |-> s]
Num(n) == [t |-> "num", v |-> n]
Obj(f) == [t |-> "obj", v |-> f]
Arr(s) == [t |-> "arr", v |-> s]

\* {} : the dict with no key
EmptyDict == [k \in {} |-> Null]

IsObj(x) == x.t = "obj"
IsArr(x) == x.t = "arr"
IsScalar(x) == x.t \in {"null", "str", "num"}

\* k in x, for a dict x
Has(x, k) == IsObj(x) /\ k \in DOMAIN x.v

\* x.get(k): the value under k, None when the key is absent
Get(x, k) == IF k \in DOMAIN x.v THEN x.v[k] ELSE Null

\* x.get(k, {})
GetOrEmpty(x, k) == IF k \in DOMAIN x.v THEN x.v[k] ELSE Obj(EmptyDict)

\* bool(x): None, "", 0, {} and [] are falsy
Truthy(x) ==
    CASE x.t = "null" -> FALSE
      [] x.t = "str" -> x.v # ""
      [] x.t = "num" -> x.v # 0
      [] x.t = "obj" -> DOMAIN x.v # {}
      [] x.t = "arr" -> Len(x.v) > 0

RECURSIVE Pow2(_)
\* 2 ** n
Pow2(n) == IF n = 0 THEN 1 ELSE 2 * Pow2(n - 1)

RECURSIVE SumSeq(_)
SumSeq(s) == IF s = <<>> THEN 0 ELSE Head(s) + SumSeq(Tail(s))

---------------------------------------------------------------------------
(* Transport: F1DataCollector._make_request                                *)

\* What one GET attempt can come to.  A connection failure and a timeout
\* raise out of session.get, a non-2xx status out of raise_for_status: all
\* three are requests.exceptions.RequestException.  A JSON-typed body that
\* does not parse makes response.json() raise
\* requests.exceptions.JSONDecodeError, a RequestException too (requests
\* 2.27 and later).  A body of another content type goes to json.loads,
\* whose json.JSONDecodeError is a ValueError and no RequestException.
NetworkErrors == {"conn_error", "timeout", "http_error"}
CaughtKinds == NetworkErrors \cup {"json_bad"}
EscapingKinds == {"text_bad"}
SuccessKinds == {"json_ok", "text_ok"}

\* the attempt outcomes over the bodies the upstream may serve
Outcomes(bodies) ==
    [kind : CaughtKinds \cup EscapingKinds, body : {Null}]
        \cup [kind : SuccessKinds, body : bodies]

\* the frame of _make_request as the call starts: range(max_retries) is
\* empty for max_retries <= 0 and the function falls to its last return
MakeRequestEnter(max_retries) ==
    [pc |-> IF max_retries > 0 THEN "get" ELSE "returned",
     max_retries |-> max_retries,
     attempt |-> 0,
     gets |-> 0,
     waits |-> <<>>,
     outs |-> <<>>,
     result |-> Null]

\* a linear backoff in place of the exponential one
BackoffDelayLinear(attempt) == attempt + 1

\* the backoff of the except branch
BackoffDelay(attempt) == Pow2(attempt)

\* the comparison off by one: attempt < max_retries
IsFinalAttemptOffByOne(s) == ~(s.attempt < s.max_retries)

\* the last attempt of the loop
IsFinalAttempt(s) == ~(s.attempt < s.max_retries - 1)

\* whether the attempt reaches one of the two returns of the try block
Succeeds(kind) == kind \in SuccessKinds

\* an except clause for ConnectionError and Timeout only
CatchesConnectionOnly(kind) == kind \in {"conn_error", "timeout"}

\* whether the except clause catches what the outcome raises
Catches(kind) == kind \in CaughtKinds

\* one iteration of the for loop: the GET, and the return, the raise or
\* the except branch with its sleep
AttemptStep(s, o) ==
    LET g == [s EXCEPT !.gets = @ + 1, !.outs = Append(@, o)]
    IN  CASE Succeeds(o.kind) ->
                [g EXCEPT !.pc = "returned", !.result = o.body]
          [] Catches(o.kind) /\ ~IsFinalAttempt(s) ->
                [g EXCEPT !.waits = Append(@, BackoffDelay(s.attempt)),
                          !.attempt = @ + 1]
          [] Catches(o.kind) /\ IsFinalAttempt(s) ->
                [g EXCEPT !.pc = "returned", !.result = Null]
          [] OTHER ->
                [g EXCEPT !.pc = "raised"]

RECURSIVE MakeRequestRuns(_, _)
\* every way the call in frame s can end, over the given attempt outcomes:
\* the frames in which _make_request has returned or raised
MakeRequestRuns(s, outcomes) ==
    IF s.pc # "get" THEN {s}
    ELSE UNION {MakeRequestRuns(AttemptStep(s, o), outcomes) : o \in outcomes}

\* the ways self._make_request(url, params) can end for an adapter
DefaultRuns(outcomes) ==
    MakeRequestRuns(MakeRequestEnter(DefaultMaxRetries), outcomes)

---------------------------------------------------------------------------
(* Data frames                                                             *)

\* pd.DataFrame(): no rows, no columns
EmptyFrame == [kind |-> "df", cols |-> {}, rows |-> <<>>]

\* an exception leaving the adapter
Raised(exc) == [kind |-> "raised", exc |-> exc]

\* pd.DataFrame(list of dicts): one row per dict, the columns are the union
\* of their keys
FrameOfRows(rows) ==
    [kind |-> "df",
     cols |-> UNION {DOMAIN rows[i] : i \in 1..Len(rows)},
     rows |-> rows]

\* DataFrame.empty: an axis of length 0
IsEmpty(df) == Len(df.rows) = 0 \/ df.cols = {}

\* pd.DataFrame(data) of the OpenF1 adapters: a list of objects gives a
\* frame; an object of scalars raises ValueError ("If using all scalar
\* values, you must pass an index")
DataFrameOf(data) ==
    CASE IsArr(data) /\ \A i \in 1..Len(data.v) : IsObj(data.v[i]) ->
            FrameOfRows([i \in 1..Len(data.v) |-> data.v[i].v])
      [] IsObj(data) /\ \A k \in DOMAIN data.v : IsScalar(data.v[k]) ->
            Raised("ValueError")

---------------------------------------------------------------------------
(* Endpoint adapters                                                       *)

\* if data:
HasData(data) == Truthy(data)

\* get_sessions, get_laps, get_pit_stops, get_drivers after
\* data = self._make_request(url, params)
PassThrough(run) ==
    IF run.pc = "raised" THEN Raised("JSONDecodeError")
    ELSE IF HasData(run.result) THEN DataFrameOf(run.result)
    ELSE EmptyFrame

GetSessionsOf(run) == PassThrough(run)
GetLapsOf(run) == PassThrough(run)
GetPitStopsOf(run) == PassThrough(run)
GetDriversOf(run) == PassThrough(run)

\* 'MRData' in data
InData(k, data) ==
    CASE IsObj(data) -> k \in DOMAIN data.v
      [] IsArr(data) -> \E i \in 1..Len(data.v) : data.v[i] = Str(k)

\* str(x) inside an f-string
Format(x) ==
    CASE x.t = "str" -> x.v
      [] x.t = "num" -> ToString(x.v)
      [] x.t = "null" -> "None"

\* f"{given} {family}"
FullName(driver) ==
    Format(driver.v.givenName) \o " " \o Format(driver.v.familyName)

\* the sequence a for loop over a list runs over
Items(x) == IF IsArr(x) THEN x.v ELSE <<>>

\* whether "for item in x: body" raises, bodyRaises[i] telling whether the
\* body raises on item i of a list: a list runs the body on its items; a
\* dict iterates its keys and a str its characters, strings that no body can
\* subscript by a name; None and numbers are not iterable
LoopRaises(x, bodyRaises) ==
    CASE IsArr(x) -> \E i \in 1..Len(x.v) : bodyRaises[i]
      [] IsObj(x) -> DOMAIN x.v # {}
      [] x.t = "str" -> x.v # ""
      [] OTHER -> TRUE

\* result['Driver'][...] and result['Constructor']['name']
IdentityRaises(e) ==
    \/ ~Has(e, "Driver")
    \/ ~Has(e.v.Driver, "driverId")
    \/ ~Has(e.v.Driver, "givenName")
    \/ ~Has(e.v.Driver, "familyName")

\* result['FastestLap'] subscripted in place of result.get('FastestLap', {})
ResultRaisesWithoutFastestLap(result) ==
    \/ ~IsObj(result)
    \/ IdentityRaises(result)
    \/ ~Has(result, "Constructor")
    \/ ~Has(result.v.Constructor, "name")
    \/ ~Has(result, "FastestLap")
    \/ ~Has(result.v.FastestLap, "Time")

\* the dict literal of one race result
ResultRaises(result) ==
    \/ ~IsObj(result)
    \/ IdentityRaises(result)
    \/ ~Has(result, "Constructor")
    \/ ~Has(result.v.Constructor, "name")
    \/ ~IsObj(GetOrEmpty(result, "FastestLap"))
    \/ ~IsObj(GetOrEmpty(GetOrEmpty(result, "FastestLap"), "Time"))

\* the body of "for race in races" of get_race_results
RaceRaises(race) ==
    \/ ~Has(race, "raceName")
    \/ ~Has(race, "Circuit")
    \/ ~Has(race.v.Circuit, "circuitName")
    \/ ~Has(race, "date")
    \/ ~Has(race, "round")
    \/ ~Has(race, "Results")
    \/ LoopRaises(race.v.Results,
            [i \in 1..Len(Items(race.v.Results)) |-> ResultRaises(Items(race.v.Results)[i])])

\* data['MRData'][table][list]
TableRaises(data, table, list) ==
    \/ ~Has(data, "MRData")
    \/ ~Has(data.v.MRData, table)
    \/ ~Has(data.v.MRData.v[table], list)

\* result_dict
ResultRow(year, race, result) ==
    [season |-> Num(year),
     round |-> race.v.round,
     race_name |-> race.v.raceName,
     circuit |-> race.v.Circuit.v.circuitName,
     date |-> race.v.date,
     position |-> Get(result, "position"),
     driver_id |-> result.v.Driver.v.driverId,
     driver_name |-> Str(FullName(result.v.Driver)),
     driver_number |-> Get(result, "number"),
     team |-> result.v.Constructor.v.name,
     grid |-> Get(result, "grid"),
     points |-> Get(result, "points"),
     status |-> Get(result, "status"),
     fastest_lap_rank |-> Get(GetOrEmpty(result, "FastestLap"), "rank"),
     fastest_lap_time |->
        Get(GetOrEmpty(GetOrEmpty(result, "FastestLap"), "Time"), "time")]

\* results_list.append(result_dict) placed after the inner loop: only the
\* last result of each race is kept
RaceRowsLastOnly(year, race) ==
    LET results == Items(race.v.Results)
    IN  IF results = <<>> THEN <<>>
        ELSE <<ResultRow(year, race, results[Len(results)])>>

\* the inner loop of get_race_results: the rows of one race
RaceRows(year, race) ==
    LET results == Items(race.v.Results)
    IN  [j \in 1..Len(results) |-> ResultRow(year, race, results[j])]

RECURSIVE ResultsList(_, _)
\* results_list after the outer loop over races
ResultsList(year, races) ==
    IF races = <<>> THEN <<>>
    ELSE RaceRows(year, Head(races)) \o ResultsList(year, Tail(races))

\* get_race_results after data = self._make_request(url, params)
GetRaceResultsOf(run, year) ==
    IF run.pc = "raised" THEN Raised("JSONDecodeError")
    ELSE IF HasData(run.result) /\ InData("MRData", run.result) THEN
        IF TableRaises(run.result, "RaceTable", "Races") THEN Raised("KeyError")
        ELSE LET races == run.result.v.MRData.v.RaceTable.v.Races
             IN  IF LoopRaises(races,
            [i \in 1..Len(Items(races)) |-> RaceRaises(Items(races)[i])]) THEN Raised("KeyError")
                 ELSE FrameOfRows(ResultsList(year, Items(races)))
    ELSE EmptyFrame

\* the dict literal of one qualifying result
QualiResultRaises(result) ==
    \/ ~IsObj(result)
    \/ IdentityRaises(result)
    \/ ~Has(result, "Constructor")
    \/ ~Has(result.v.Constructor, "name")

\* the body of "for race in races" of get_qualifying_results
QualiRaceRaises(race) ==
    \/ ~Has(race, "raceName")
    \/ ~Has(race, "round")
    \/ ~Has(race, "QualifyingResults")
    \/ LoopRaises(race.v.QualifyingResults,
            [i \in 1..Len(Items(race.v.QualifyingResults)) |-> QualiResultRaises(Items(race.v.QualifyingResults)[i])])

\* quali_dict
QualiRow(year, race, result) ==
    [season |-> Num(year),
     round |-> race.v.round,
     race_name |-> race.v.raceName,
     position |-> Get(result, "position"),
     driver_id |-> result.v.Driver.v.driverId,
     driver_name |-> Str(FullName(result.v.Driver)),
     driver_number |-> Get(result, "number"),
     team |-> result.v.Constructor.v.name,
     Q1 |-> Get(result, "Q1"),
     Q2 |-> Get(result, "Q2"),
     Q3 |-> Get(result, "Q3")]

\* the inner loop of get_qualifying_results
QualiRaceRows(year, race) ==
    LET results == Items(race.v.QualifyingResults)
    IN  [j \in 1..Len(results) |-> QualiRow(year, race, results[j])]

RECURSIVE QualiList(_, _)
\* quali_list after the outer loop over races
QualiList(year, races) ==
    IF races = <<>> THEN <<>>
    ELSE QualiRaceRows(year, Head(races)) \o QualiList(year, Tail(races))

\* get_qualifying_results after data = self._make_request(url, params)
GetQualifyingResultsOf(run, year) ==
    IF run.pc = "raised" THEN Raised("JSONDecodeError")
    ELSE IF HasData(run.result) /\ InData("MRData", run.result) THEN
        IF TableRaises(run.result, "RaceTable", "Races") THEN Raised("KeyError")
        ELSE LET races == run.result.v.MRData.v.RaceTable.v.Races
             IN  IF LoopRaises(races,
            [i \in 1..Len(Items(races)) |-> QualiRaceRaises(Items(races)[i])]) THEN Raised("KeyError")
                 ELSE FrameOfRows(QualiList(year, Items(races)))
    ELSE EmptyFrame

\* driver_standing['Constructors'][0]['name']
FirstTeamRaises(ds) ==
    \/ ~Has(ds, "Constructors")
    \/ ~IsArr(ds.v.Constructors)
    \/ Len(ds.v.Constructors.v) = 0
    \/ ~Has(ds.v.Constructors.v[1], "name")

\* the dict literal of one driver standing
DriverStandingRaises(ds) ==
    \/ ~Has(ds, "position")
    \/ IdentityRaises(ds)
    \/ FirstTeamRaises(ds)
    \/ ~Has(ds, "points")
    \/ ~Has(ds, "wins")

\* the body of "for standing in standings_list"
StandingRaises(standing) ==
    \/ ~IsObj(standing)
    \/ ~Has(standing, "DriverStandings")
    \/ LoopRaises(standing.v.DriverStandings,
            [i \in 1..Len(Items(standing.v.DriverStandings)) |-> DriverStandingRaises(Items(standing.v.DriverStandings)[i])])

\* standing_dict
StandingRow(year, standing, ds) ==
    [season |-> Num(year),
     round |-> Get(standing, "round"),
     position |-> ds.v.position,
     driver_id |-> ds.v.Driver.v.driverId,
     driver_name |-> Str(FullName(ds.v.Driver)),
     team |-> ds.v.Constructors.v[1].v.name,
     points |-> ds.v.points,
     wins |-> ds.v.wins]

\* the inner loop of get_driver_standings
StandingRows(year, standing) ==
    LET entries == Items(standing.v.DriverStandings)
    IN  [j \in 1..Len(entries) |-> StandingRow(year, standing, entries[j])]

RECURSIVE AllStandings(_, _)
\* all_standings after the outer loop over standings_list
AllStandings(year, lists) ==
    IF lists = <<>> THEN <<>>
    ELSE StandingRows(year, Head(lists)) \o AllStandings(year, Tail(lists))

\* get_driver_standings after data = self._make_request(url, params=...)
GetDriverStandingsOf(run, year) ==
    IF run.pc = "raised" THEN Raised("JSONDecodeError")
    ELSE IF HasData(run.result) /\ InData("MRData", run.result) THEN
        IF TableRaises(run.result, "StandingsTable", "StandingsLists")
        THEN Raised("KeyError")
        ELSE LET lists == run.result.v.MRData.v.StandingsTable.v.StandingsLists
             IN  IF LoopRaises(lists,
            [i \in 1..Len(Items(lists)) |-> StandingRaises(Items(lists)[i])]) THEN Raised("KeyError")
                 ELSE FrameOfRows(AllStandings(year, Items(lists)))
    ELSE EmptyFrame

---------------------------------------------------------------------------
(* What the upstream APIs may serve                                        *)

\* the sequences over S of length at most n
SeqsUpTo(S, n) == UNION {[1..k -> S] : k \in 0..n}

\* a name for entry j of race r
Tag(r, j) == ToString(r) \o "_" \o ToString(j)

\* the Driver object of an entry: every entry names its own driver
DriverOf(r, j) ==
    Obj([driverId |-> Str("driver_" \o Tag(r, j)),
         givenName |-> Str("Given" \o Tag(r, j)),
         familyName |-> Str("Family" \o Tag(r, j))])

\* how an entry of Results carries its fastest lap
FastestLapShapes == {"absent", "no_time", "full"}

FastestLapOf(r, j, shape) ==
    CASE shape = "absent" -> EmptyDict
      [] shape = "no_time" -> [FastestLap |-> Obj([rank |-> Str(ToString(j))])]
      [] shape = "full" ->
            [FastestLap |-> Obj([rank |-> Str(ToString(j)),
                                 Time |-> Obj([time |-> Str("1:30." \o Tag(r, j))])])]

\* entry j of the Results of race r
ResultEntry(r, j, shape) ==
    Obj([position |-> Str(ToString(j)),
         number |-> Str("4" \o ToString(j)),
         Driver |-> DriverOf(r, j),
         Constructor |-> Obj([name |-> Str("team_" \o Tag(r, j))]),
         grid |-> Str(ToString(j + 1)),
         points |-> Str(ToString(25 - j)),
         status |-> Str("Finished")] @@ FastestLapOf(r, j, shape))

\* race r of a results payload, its entries shaped as shapes says
RaceEntry(r, shapes) ==
    Obj([round |-> Str(ToString(r)),
         raceName |-> Str("Grand Prix " \o ToString(r)),
         Circuit |-> Obj([circuitName |-> Str("Circuit " \o ToString(r))]),
         date |-> Str("2024-03-0" \o ToString(r)),
         Results |-> Arr([j \in 1..Len(shapes) |-> ResultEntry(r, j, shapes[j])])])

\* the body of /{year}/results.json
RaceResultsPayload(plan) ==
    Obj([MRData |-> Obj([RaceTable |-> Obj([Races |->
        Arr([r \in 1..Len(plan) |-> RaceEntry(r, plan[r])])])])])

\* the well-formed results payloads within the bounds
RaceResultsPlans == SeqsUpTo(SeqsUpTo(FastestLapShapes, MaxResults), MaxRaces)

\* entry j of the QualifyingResults of race r; only the first has a Q3 time
QualiEntry(r, j) ==
    Obj([position |-> Str(ToString(j)),
         number |-> Str("4" \o ToString(j)),
         Driver |-> DriverOf(r, j),
         Constructor |-> Obj([name |-> Str("team_" \o Tag(r, j))]),
         Q1 |-> Str("1:31." \o Tag(r, j))]
        @@ (IF j = 1 THEN [Q3 |-> Str("1:29." \o Tag(r, j))] ELSE EmptyDict))

\* the body of /{year}/qualifying.json with counts[r] entries in race r
QualifyingPayload(counts) ==
    Obj([MRData |-> Obj([RaceTable |-> Obj([Races |->
        Arr([r \in 1..Len(counts) |->
            Obj([round |-> Str(ToString(r)),
                 raceName |-> Str("Grand Prix " \o ToString(r)),
                 QualifyingResults |->
                    Arr([j \in 1..counts[r] |-> QualiEntry(r, j)])])])])])])

\* entry j of the DriverStandings of round r; the driver has j teams
DriverStandingEntry(r, j) ==
    Obj([position |-> Str(ToString(j)),
         Driver |-> DriverOf(r, j),
         Constructors |->
            Arr([c \in 1..j |-> Obj([name |-> Str("team_" \o ToString(c))])]),
         points |-> Str(ToString(25 - j)),
         wins |-> Str(ToString(2 - j))])

\* the body of /{year}/driverStandings.json
StandingsPayload(counts) ==
    Obj([MRData |-> Obj([StandingsTable |-> Obj([StandingsLists |->
        Arr([r \in 1..Len(counts) |->
            Obj([round |-> Str(ToString(r)),
                 DriverStandings |->
                    Arr([j \in 1..counts[r] |-> DriverStandingEntry(r, j)])])])])])])

EntryCounts == SeqsUpTo(1..MaxResults, MaxRaces)
WellFormedQualifying == {QualifyingPayload(c) : c \in EntryCounts}
WellFormedStandings == {StandingsPayload(c) : c \in EntryCounts}

\* an entry without the driver's identity
NoDriverIdEntry ==
    Obj([position |-> Str("1"),
         Driver |-> Obj([givenName |-> Str("Given"), familyName |-> Str("Family")]),
         Constructor |-> Obj([name |-> Str("team")]),
         Constructors |-> Arr(<<Obj([name |-> Str("team")])>>),
         points |-> Str("25"),
         wins |-> Str("1")])

\* bodies of an Ergast endpoint that are not of the documented shape: JSON
\* null, {}, no MRData, MRData without the table, the table without its
\* list, a race without its entries, an entry without driverId
MalformedErgast(table, list, entries) ==
    {Null,
     Obj(EmptyDict),
     Obj([error |-> Str("bad request")]),
     Obj([MRData |-> Obj([series |-> Str("f1")])]),
     Obj([MRData |-> Obj([t \in {table} |-> Obj([season |-> Str("2024")])])]),
     Obj([MRData |-> Obj([t \in {table} |-> Obj([l \in {list} |->
        Arr(<<Obj([round |-> Str("1"), raceName |-> Str("Grand Prix 1"),
                   Circuit |-> Obj([circuitName |-> Str("Circuit 1")]),
                   date |-> Str("2024-03-01")])>>)])])]),
     Obj([MRData |-> Obj([t \in {table} |-> Obj([l \in {list} |->
        Arr(<<Obj([round |-> Str("1"), raceName |-> Str("Grand Prix 1"),
                   Circuit |-> Obj([circuitName |-> Str("Circuit 1")]),
                   date |-> Str("2024-03-01")]
                  @@ [e \in {entries} |-> Arr(<<NoDriverIdEntry>>)])>>)])])])}

MalformedRaceResults == MalformedErgast("RaceTable", "Races", "Results")
MalformedQualifying == MalformedErgast("RaceTable", "Races", "QualifyingResults")
MalformedStandings ==
    MalformedErgast("StandingsTable", "StandingsLists", "DriverStandings")

\* session_name of a session; session_key is its place in the payload
SessionNames == {"Race", "Qualifying"}

SessionEntry(i, name) ==
    Obj([session_key |-> Num(9000 + i), session_name |-> Str(name),
         year |-> Num(2024)])

\* the body of /sessions: a flat array of sessions
SessionsPayload(names) ==
    Arr([i \in 1..Len(names) |-> SessionEntry(i, names[i])])

WellFormedSessions ==
    {SessionsPayload(names) : names \in SeqsUpTo(SessionNames, MaxSessions)}

\* bodies of an OpenF1 endpoint that are not a flat array of full records:
\* JSON null, {}, an error object, sessions without session_name, a race
\* session without session_key
MalformedOpenF1 ==
    {Null,
     Obj(EmptyDict),
     Obj([detail |-> Str("No results found.")]),
     Arr(<<Obj([session_key |-> Num(9001)])>>),
     Arr(<<Obj([session_name |-> Str("Race")])>>)}

\* the body of /laps, /pit and /drivers: a flat array of records
RecordsPayload(n) ==
    Arr([i \in 1..n |-> Obj([session_key |-> Num(9001), driver_number |-> Num(i)])])

WellFormedRecords == {RecordsPayload(n) : n \in 0..MaxResults}

\* the transport call that returns body at its first attempt
FirstAttemptRun(kind, body) ==
    AttemptStep(MakeRequestEnter(DefaultMaxRetries), [kind |-> kind, body |-> body])

\* how the transport call of each adapter can end
SessionsRuns == DefaultRuns(Outcomes(WellFormedSessions \cup MalformedOpenF1))
RecordsRuns == DefaultRuns(Outcomes(WellFormedRecords \cup MalformedOpenF1))
RaceResultsRuns == DefaultRuns(Outcomes(MalformedRaceResults))
QualifyingRuns ==
    DefaultRuns(Outcomes(MalformedQualifying \cup WellFormedQualifying))
StandingsRuns ==
    DefaultRuns(Outcomes(MalformedStandings \cup WellFormedStandings))

\* session_key arguments of a direct adapter call
SessionKeys == {9001, 999999}

---------------------------------------------------------------------------
(* Direct adapter calls                                                    *)

\* the frame of an adapter that has returned or raised
AdapterDone(name, arg, run, ret) ==
    [pc |-> "done", adapter |-> name, arg |-> arg, run |-> run, ret |-> ret]

NothingRunning == mr.pc = "idle" /\ ad.pc = "idle" /\ season.pc = "idle"

GetSessions ==
    /\ NothingRunning
    /\ \E year \in Years, run \in SessionsRuns :
         ad' = AdapterDone("get_sessions", year, run, GetSessionsOf(run))
    /\ UNCHANGED <<mr, season>>

GetLaps ==
    /\ NothingRunning
    /\ \E key \in SessionKeys, run \in RecordsRuns :
         ad' = AdapterDone("get_laps", key, run, GetLapsOf(run))
    /\ UNCHANGED <<mr, season>>

GetPitStops ==
    /\ NothingRunning
    /\ \E key \in SessionKeys, run \in RecordsRuns :
         ad' = AdapterDone("get_pit_stops", key, run, GetPitStopsOf(run))
    /\ UNCHANGED <<mr, season>>

GetDrivers ==
    /\ NothingRunning
    /\ \E key \in SessionKeys, run \in RecordsRuns :
         ad' = AdapterDone("get_drivers", key, run, GetDriversOf(run))
    /\ UNCHANGED <<mr, season>>

\* get_race_results(year): against every transport outcome over the
\* malformed bodies, and served each well-formed payload of the bounds
GetRaceResults ==
    /\ NothingRunning
    /\ \/ \E year \in Years, run \in RaceResultsRuns :
            ad' = AdapterDone("get_race_results", year, run,
                              GetRaceResultsOf(run, year))
       \/ \E year \in Years, plan \in RaceResultsPlans :
            LET run == FirstAttemptRun("json_ok", RaceResultsPayload(plan))
            IN  ad' = AdapterDone("get_race_results", year, run,
                                  GetRaceResultsOf(run, year))
    /\ UNCHANGED <<mr, season>>

GetQualifyingResults ==
    /\ NothingRunning
    /\ \E year \in Years, run \in QualifyingRuns :
         ad' = AdapterDone("get_qualifying_results", year, run,
                           GetQualifyingResultsOf(run, year))
    /\ UNCHANGED <<mr, season>>

GetDriverStandings ==
    /\ NothingRunning
    /\ \E year \in Years, run \in StandingsRuns :
         ad' = AdapterDone("get_driver_standings", year, run,
                           GetDriverStandingsOf(run, year))
    /\ UNCHANGED <<mr, season>>

---------------------------------------------------------------------------
(* Season orchestrator: collect_season_data                                *)

\* a local variable not assigned yet
Unset == [kind |-> "unset"]

\* an adapter call as the season run sees it: what the adapter returned or
\* raised, the GETs of its one self._make_request call and, of a call that
\* raised, the body the adapter had been handed
SeasonCall(run, ret) ==
    [ret |-> ret, gets |-> run.gets,
     served |-> IF ret.kind = "raised" THEN run.result ELSE Unset]

\* what one adapter call of a season run can come to: the season is run
\* against every transport outcome and against the malformed bodies, with a
\* small choice of well-formed ones
SeasonRaceResults(year) ==
    {SeasonCall(run, GetRaceResultsOf(run, year)) : run \in
        DefaultRuns(Outcomes(MalformedRaceResults \cup
            {RaceResultsPayload(<<>>), RaceResultsPayload(<<<<"full">>>>)}))}
SeasonQualifying(year) ==
    {SeasonCall(run, GetQualifyingResultsOf(run, year)) : run \in
        DefaultRuns(Outcomes(MalformedQualifying \cup
            {QualifyingPayload(<<>>), QualifyingPayload(<<1>>)}))}
SeasonStandings(year) ==
    {SeasonCall(run, GetDriverStandingsOf(run, year)) : run \in
        DefaultRuns(Outcomes(MalformedStandings \cup
            {StandingsPayload(<<>>), StandingsPayload(<<1>>)}))}
SeasonSessions == {SeasonCall(run, GetSessionsOf(run)) : run \in SessionsRuns}
SeasonRecordBodies ==
    {Null, Obj([detail |-> Str("No results found.")]),
     RecordsPayload(0), RecordsPayload(1)}
SeasonLaps ==
    {SeasonCall(run, GetLapsOf(run)) : run \in DefaultRuns(Outcomes(SeasonRecordBodies))}
SeasonPitStops ==
    {SeasonCall(run, GetPitStopsOf(run)) :
        run \in DefaultRuns(Outcomes(SeasonRecordBodies))}

\* one line of what the run did: an adapter call (n rows returned, -1 when
\* it raised), a save_to_csv of n rows, or a time.sleep of n seconds
Event(ev, what, arg, n) == [ev |-> ev, what |-> what, arg |-> arg, n |-> n]

Called(what, arg, ret) ==
    Event("call", what, arg, IF ret.kind = "raised" THEN -1 ELSE Len(ret.rows))

\* if not df.empty: collector.save_to_csv(df, filename)
SaveIfNotEmpty(what, arg, df) ==
    IF IsEmpty(df) THEN <<>> ELSE <<Event("save", what, arg, Len(df.rows))>>

\* df[df[col] == value]: the rows whose col is value, in order
RECURSIVE FilterEq(_, _, _)
FilterEq(rows, col, value) ==
    IF rows = <<>> THEN <<>>
    ELSE LET rest == FilterEq(Tail(rows), col, value)
         IN  IF col \in DOMAIN Head(rows) /\ Head(rows)[col] = value
             THEN <<Head(rows)>> \o rest ELSE rest

\* no sampling: every row is kept
HeadRowsAll(rows, n) == rows

\* df.head(n)
HeadRows(rows, n) == SubSeq(rows, 1, IF Len(rows) < n THEN Len(rows) ELSE n)

\* race_sessions.head(3) of sessions[sessions['session_name'] == 'Race']
SampledRaceSessions(sessions) ==
    HeadRows(FilterEq(sessions.rows, "session_name", Str("Race")), SampledSessions)

\* session['session_key']: NaN where the row has no value in the column
CellOf(row, col) == IF col \in DOMAIN row THEN row[col] ELSE Null

\* the call of collect_season_data(year, collector)
CollectSeasonData ==
    /\ NothingRunning
    /\ \E year \in Years :
         season' = [pc |-> "race_results", year |-> year,
                    race_results |-> Unset, quali_results |-> Unset,
                    standings |-> Unset, sessions |-> Unset,
                    laps |-> Unset, pit_stops |-> Unset,
                    race_sessions |-> <<>>, idx |-> 0, log |-> <<>>,
                    requests |-> 0, gets |-> 0, served |-> Unset]
    /\ UNCHANGED <<mr, ad>>

\* the season frame after an adapter call at this pc returned or raised:
\* the call made one self._make_request call, which issued call.gets GETs;
\* of an adapter that raised the frame keeps the body it had been served
AfterCall(what, arg, call, var, next) ==
    LET counted == [season EXCEPT !.requests = @ + 1, !.gets = @ + call.gets,
                                  !.log = Append(@, Called(what, arg, call.ret))]
    IN  IF call.ret.kind = "raised"
        THEN [counted EXCEPT !.pc = "raised", !.served = call.served]
        ELSE [counted EXCEPT !.pc = next, ![var] = call.ret]

\* race_results = collector.get_race_results(year)
FetchRaceResults ==
    /\ season.pc = "race_results"
    /\ \E call \in SeasonRaceResults(season.year) :
         season' = AfterCall("get_race_results", Num(season.year), call,
                             "race_results", "quali_results")
    /\ UNCHANGED <<mr, ad>>

\* quali_results = collector.get_qualifying_results(year)
FetchQualifying ==
    /\ season.pc = "quali_results"
    /\ \E call \in SeasonQualifying(season.year) :
         season' = AfterCall("get_qualifying_results", Num(season.year), call,
                             "quali_results", "standings")
    /\ UNCHANGED <<mr, ad>>

\* standings = collector.get_driver_standings(year)
FetchStandings ==
    /\ season.pc = "standings"
    /\ \E call \in SeasonStandings(season.year) :
         season' = AfterCall("get_driver_standings", Num(season.year), call,
                             "standings", "save_ergast")
    /\ UNCHANGED <<mr, ad>>

\* the three "if not ... .empty: save_to_csv" of the Ergast data
SaveErgast ==
    /\ season.pc = "save_ergast"
    /\ season' = [season EXCEPT
            !.pc = "sessions",
            !.log = @ \o SaveIfNotEmpty("race_results", Num(season.year),
                                        season.race_results)
                      \o SaveIfNotEmpty("qualifying", Num(season.year),
                                        season.quali_results)
                      \o SaveIfNotEmpty("standings", Num(season.year),
                                        season.standings)]
    /\ UNCHANGED <<mr, ad>>

\* sessions = collector.get_sessions(year), and for a non-empty frame its
\* save and the filter to the race sessions, which raises KeyError when the
\* frame has no session_name column
FetchSessions ==
    /\ season.pc = "sessions"
    /\ \E call \in SeasonSessions :
         LET ret == call.ret
             s == AfterCall("get_sessions", Num(season.year), call,
                            "sessions", "complete")
         IN  season' =
               IF ret.kind = "raised" \/ IsEmpty(ret) THEN s
               ELSE LET saved == [s EXCEPT !.log = @ \o
                                   SaveIfNotEmpty("sessions", Num(season.year), ret)]
                    IN  IF "session_name" \notin ret.cols
                        THEN [saved EXCEPT !.pc = "raised"]
                        ELSE LET sampled == SampledRaceSessions(ret)
                             IN  [saved EXCEPT
                                    !.race_sessions = sampled,
                                    !.idx = 1,
                                    !.pc = IF sampled = <<>> THEN "complete"
                                           ELSE "laps"]
    /\ UNCHANGED <<mr, ad>>

\* the sampled sessions walked from the last one to the first
SessionKeyFromLast ==
    CellOf(season.race_sessions[Len(season.race_sessions) + 1 - season.idx],
           "session_key")

\* session_key = session['session_key'] of the session the loop is at
SessionKey == CellOf(season.race_sessions[season.idx], "session_key")

\* the head of the loop body and laps = collector.get_laps(session_key) with
\* its save; session['session_key'] raises KeyError when no session has one
CollectLaps ==
    /\ season.pc = "laps"
    /\ IF "session_key" \notin season.sessions.cols
       THEN season' = [season EXCEPT !.pc = "raised"]
       ELSE \E call \in SeasonLaps :
              LET ret == call.ret
                  s == AfterCall("get_laps", SessionKey, call, "laps", "pit_stops")
              IN  season' =
                    IF ret.kind = "raised" THEN s
                    ELSE [s EXCEPT !.log = @ \o SaveIfNotEmpty("laps", SessionKey, ret)]
    /\ UNCHANGED <<mr, ad>>

\* pit_stops = collector.get_pit_stops(session_key) with its save
CollectPitStops ==
    /\ season.pc = "pit_stops"
    /\ \E call \in SeasonPitStops :
         LET ret == call.ret
             s == AfterCall("get_pit_stops", SessionKey, call, "pit_stops", "pause")
         IN  season' =
               IF ret.kind = "raised" THEN s
               ELSE [s EXCEPT !.log = @ \o SaveIfNotEmpty("pit_stops", SessionKey, ret)]
    /\ UNCHANGED <<mr, ad>>

\* time.sleep(1) and the step of the for loop to the next sampled session
Pause ==
    /\ season.pc = "pause"
    /\ season' = [season EXCEPT
            !.log = Append(@, Event("sleep", "rate_limit", Null, RateLimitPause)),
            !.idx = @ + 1,
            !.pc = IF season.idx < Len(season.race_sessions) THEN "laps"
                   ELSE "complete"]
    /\ UNCHANGED <<mr, ad>>

\* the closing print of "Completed data collection"
Complete ==
    /\ season.pc = "complete"
    /\ season' = [season EXCEPT !.pc = "done"]
    /\ UNCHANGED <<mr, ad>>

\* the frame when no direct call is in progress
Idle == [pc |-> "idle"]

\* bodies served to a direct _make_request call
DirectBodies == {Null, Arr(<<>>), Obj([detail |-> Str("Not found")])}

\* a direct call of _make_request(url, params, max_retries)
MakeRequestCall ==
    /\ NothingRunning
    /\ \E m \in 0..MaxRetriesBound : mr' = MakeRequestEnter(m)
    /\ UNCHANGED <<ad, season>>

\* one loop iteration of the call in progress
MakeRequestAttempt ==
    /\ mr.pc = "get"
    /\ \E o \in Outcomes(DirectBodies) : mr' = AttemptStep(mr, o)
    /\ UNCHANGED <<ad, season>>

Init ==
    /\ mr = Idle
    /\ ad = Idle
    /\ season = Idle

NextTransport ==
    \/ MakeRequestCall
    \/ MakeRequestAttempt

SpecTransport == Init /\ [][NextTransport]_vars

NextAdapter ==
    \/ GetRaceResults
    \/ GetQualifyingResults
    \/ GetDriverStandings
    \/ GetSessions
    \/ GetLaps
    \/ GetPitStops
    \/ GetDrivers

SpecAdapter == Init /\ [][NextAdapter]_vars

Next ==
    \/ CollectSeasonData
    \/ FetchRaceResults
    \/ FetchQualifying
    \/ FetchStandings
    \/ SaveErgast
    \/ FetchSessions
    \/ CollectLaps
    \/ CollectPitStops
    \/ Pause
    \/ Complete

Spec == Init /\ [][Next]_vars

---------------------------------------------------------------------------
(* Properties of the Transport (checked under SpecTransport)               *)

\* C1: no exception escapes _make_request: whatever the outcome of a GET
\* attempt, the call ends by returning a JSON value or None, never by
\* raising.
C1_NoExceptionEscapes == mr.pc # "raised"

AllNetworkErrors(outs) == \A i \in 1..Len(outs) : outs[i].kind \in NetworkErrors

\* C2: for max_retries >= 1 a call issues at most max_retries GETs, exactly
\* max_retries when every attempt fails with a network-level error, and no
\* GET after the first successful attempt.
C2_RetryBound ==
    (mr.pc # "idle" /\ mr.max_retries >= 1) =>
        /\ mr.gets = Len(mr.outs)
        /\ mr.gets <= mr.max_retries
        /\ (mr.pc # "get" /\ AllNetworkErrors(mr.outs)) => mr.gets = mr.max_retries
        /\ \A i \in 1..Len(mr.outs) :
              mr.outs[i].kind \in SuccessKinds =>
                  i = Len(mr.outs) /\ mr.pc = "returned"

\* three network failures exhaust the default three attempts
C2_Witness ==
    /\ mr.pc = "returned"
    /\ mr.max_retries = DefaultMaxRetries
    /\ mr.gets = DefaultMaxRetries
    /\ AllNetworkErrors(mr.outs)

\* C3: a network-level failure of attempt k (from 0) that is not the final
\* attempt is followed by a wait of exactly 2^k seconds before the next GET,
\* and nothing else waits; two failures and a success return the payload
\* after 1 + 2 = 3 seconds, a first-attempt success after 0 seconds.
C3_Backoff ==
    mr.pc # "idle" =>
        /\ \A i \in 1..Len(mr.outs) :
              (mr.outs[i].kind \in NetworkErrors /\ i < mr.max_retries) =>
                  Len(mr.waits) >= i /\ mr.waits[i] = Pow2(i - 1)
        /\ Len(mr.waits) =
              Cardinality({i \in 1..Len(mr.outs) :
                  mr.outs[i].kind \in CaughtKinds /\ i < mr.max_retries})
        /\ (Len(mr.outs) = mr.max_retries /\ mr.max_retries >= 1) =>
              Len(mr.waits) <= mr.max_retries - 1
        /\ ( /\ Len(mr.outs) = 3
             /\ mr.outs[1].kind \in NetworkErrors
             /\ mr.outs[2].kind \in NetworkErrors
             /\ mr.outs[3].kind \in SuccessKinds ) =>
              /\ mr.pc = "returned"
              /\ mr.result = mr.outs[3].body
              /\ SumSeq(mr.waits) = 3
        /\ (Len(mr.outs) >= 1 /\ mr.outs[1].kind \in SuccessKinds) =>
              /\ mr.pc = "returned"
              /\ mr.result = mr.outs[1].body
              /\ SumSeq(mr.waits) = 0

\* two network failures, then a body on the third attempt
C3_Witness ==
    /\ mr.pc = "returned"
    /\ Len(mr.outs) = 3
    /\ mr.outs[1].kind = "timeout"
    /\ mr.outs[2].kind = "http_error"
    /\ mr.outs[3].kind = "json_ok"
    /\ mr.result = Arr(<<>>)
    /\ mr.waits = <<1, 2>>

---------------------------------------------------------------------------
(* Properties of the adapters (checked under SpecAdapter)                  *)

\* the transport call of the adapter met three network failures in a row
ThreeFailures(run) == Len(run.outs) = 3 /\ AllNetworkErrors(run.outs)

\* C4: when the three attempts of one _make_request call each fail with a
\* network-level error the call returns None without raising, and every
\* adapter built on it returns an empty record set.
C4_ExhaustedRetries ==
    (ad.pc = "done" /\ ThreeFailures(ad.run)) =>
        /\ ad.run.pc = "returned"
        /\ ad.run.result = Null
        /\ ad.ret.kind = "df"
        /\ IsEmpty(ad.ret)

\* get_laps after a connection error, a timeout and a 5xx
C4_Witness ==
    /\ ad.pc = "done"
    /\ ad.adapter = "get_laps"
    /\ ThreeFailures(ad.run)
    /\ ad.run.outs[3].kind = "http_error"
    /\ ad.ret = EmptyFrame

ErgastAdapters ==
    {"get_race_results", "get_qualifying_results", "get_driver_standings"}

\* the table, the list and the entries an Ergast adapter reads
TableOf(adapter) ==
    IF adapter = "get_driver_standings" THEN "StandingsTable" ELSE "RaceTable"
ListOf(adapter) ==
    IF adapter = "get_driver_standings" THEN "StandingsLists" ELSE "Races"
EntriesKeyOf(adapter) ==
    CASE adapter = "get_race_results" -> "Results"
      [] adapter = "get_qualifying_results" -> "QualifyingResults"
      [] adapter = "get_driver_standings" -> "DriverStandings"

\* the payload has no MRData, or MRData without the adapter's resource array:
\* its table, the list in the table, or the entries of a race
LacksExpectedKeys(adapter, data) ==
    \/ ~Has(data, "MRData")
    \/ ~Has(data.v.MRData, TableOf(adapter))
    \/ ~Has(data.v.MRData.v[TableOf(adapter)], ListOf(adapter))
    \/ LET list == data.v.MRData.v[TableOf(adapter)].v[ListOf(adapter)]
       IN  IsArr(list) /\ \E i \in 1..Len(list.v) :
                ~Has(list.v[i], EntriesKeyOf(adapter))

\* C5: every adapter is total: when the Transport returns None, a payload
\* without MRData, or one with MRData that lacks the resource array, the
\* adapter returns an empty record set and does not raise.
C5_AdaptersTotal ==
    ( /\ ad.pc = "done"
      /\ ad.run.pc = "returned"
      /\ \/ ad.run.result = Null
         \/ ad.adapter \in ErgastAdapters
                /\ LacksExpectedKeys(ad.adapter, ad.run.result) ) =>
        /\ ad.ret.kind = "df"
        /\ IsEmpty(ad.ret)

\* the races of a well-formed results payload
RacesOf(data) == data.v.MRData.v.RaceTable.v.Races.v
EntriesOf(race) == race.v.Results.v

\* the number of result entries in the races before race i
EntriesBefore(races, i) ==
    SumSeq([k \in 1..(i - 1) |-> Len(EntriesOf(races[k]))])

\* a result entry of the documented shape: Driver with its id and names,
\* Constructor with its name; FastestLap, and Time in it, are optional
WellFormedResult(e) ==
    /\ Has(e, "Driver")
    /\ \A k \in {"driverId", "givenName", "familyName"} :
          Has(e.v.Driver, k) /\ e.v.Driver.v[k].t = "str"
    /\ Has(e, "Constructor") /\ Has(e.v.Constructor, "name")
    /\ Has(e, "FastestLap") =>
          /\ IsObj(e.v.FastestLap)
          /\ Has(e.v.FastestLap, "Time") => IsObj(e.v.FastestLap.v.Time)

\* a race of the documented shape
WellFormedRace(race) ==
    /\ \A k \in {"round", "raceName", "Circuit", "date", "Results"} : Has(race, k)
    /\ Has(race.v.Circuit, "circuitName")
    /\ IsArr(race.v.Results)
    /\ \A j \in 1..Len(race.v.Results.v) : WellFormedResult(race.v.Results.v[j])

\* a race-results payload of the documented shape
WellFormedResults(data) ==
    /\ Has(data, "MRData")
    /\ Has(data.v.MRData, "RaceTable")
    /\ Has(data.v.MRData.v.RaceTable, "Races")
    /\ IsArr(data.v.MRData.v.RaceTable.v.Races)
    /\ \A i \in 1..Len(data.v.MRData.v.RaceTable.v.Races.v) :
          WellFormedRace(data.v.MRData.v.RaceTable.v.Races.v[i])

\* the adapter get_race_results was served a well-formed payload
ServedWellFormedResults ==
    /\ ad.pc = "done"
    /\ ad.adapter = "get_race_results"
    /\ ad.run.pc = "returned"
    /\ WellFormedResults(ad.run.result)

\* C6: for a well-formed payload get_race_results emits exactly one record
\* per (race, result) pair, races in payload order and results in order
\* within each race (R races of M results give R*M records); each record
\* carries the fields of its own race and of its own result entry, and
\* driver_name is the given name, one space, the family name.
C6_Flattening ==
    ServedWellFormedResults =>
        LET races == RacesOf(ad.run.result)
        IN  /\ ad.ret.kind = "df"
            /\ Len(ad.ret.rows) = EntriesBefore(races, Len(races) + 1)
            /\ \A m \in 0..(MaxResults + 1) :
                  (\A i \in 1..Len(races) : Len(EntriesOf(races[i])) = m) =>
                      Len(ad.ret.rows) = Len(races) * m
            /\ \A i \in 1..Len(races) : \A j \in 1..Len(EntriesOf(races[i])) :
                  LET row == ad.ret.rows[EntriesBefore(races, i) + j]
                      race == races[i].v
                      e == EntriesOf(races[i])[j].v
                  IN  /\ row.season = Num(ad.arg)
                      /\ row.round = race.round
                      /\ row.race_name = race.raceName
                      /\ row.circuit = race.Circuit.v.circuitName
                      /\ row.date = race.date
                      /\ row.position = e.position
                      /\ row.driver_id = e.Driver.v.driverId
                      /\ row.team = e.Constructor.v.name
                      /\ row.grid = e.grid
                      /\ row.points = e.points
                      /\ row.status = e.status
                      /\ row.driver_name =
                            Str(e.Driver.v.givenName.v \o " " \o e.Driver.v.familyName.v)

\* two races of two results each give four records
C6_Witness ==
    /\ ServedWellFormedResults
    /\ Len(RacesOf(ad.run.result)) = 2
    /\ \A i \in 1..2 : Len(EntriesOf(RacesOf(ad.run.result)[i])) = 2
    /\ Len(ad.ret.rows) = 4
    /\ ad.ret.rows[3].driver_name = Str("Given2_1 Family2_1")
    /\ ad.ret.rows[3].race_name = Str("Grand Prix 2")

\* C7: a result entry without FastestLap, or with a FastestLap without Time,
\* still gives its record, with fastest_lap_rank and/or fastest_lap_time
\* null; the number of records does not depend on which entries have
\* FastestLap.
C7_MissingFastestLap ==
    ServedWellFormedResults =>
        LET races == RacesOf(ad.run.result)
        IN  /\ ad.ret.kind = "df"
            /\ Len(ad.ret.rows) = EntriesBefore(races, Len(races) + 1)
            /\ \A i \in 1..Len(races) : \A j \in 1..Len(EntriesOf(races[i])) :
                  LET row == ad.ret.rows[EntriesBefore(races, i) + j]
                      e == EntriesOf(races[i])[j]
                  IN  /\ row.driver_id = e.v.Driver.v.driverId
                      /\ ~Has(e, "FastestLap") =>
                            /\ row.fastest_lap_rank = Null
                            /\ row.fastest_lap_time = Null
                      /\ (Has(e, "FastestLap") /\ ~Has(e.v.FastestLap, "Time")) =>
                            /\ row.fastest_lap_rank = e.v.FastestLap.v.rank
                            /\ row.fastest_lap_time = Null
                      /\ (Has(e, "FastestLap") /\ Has(e.v.FastestLap, "Time")) =>
                            /\ row.fastest_lap_rank = e.v.FastestLap.v.rank
                            /\ row.fastest_lap_time = e.v.FastestLap.v.Time.v.time

\* a race whose first entry has no FastestLap and whose second has one
\* without Time: both records are there
C7_Witness ==
    /\ ServedWellFormedResults
    /\ ad.run.result = RaceResultsPayload(<<<<"absent", "no_time">>>>)
    /\ Len(ad.ret.rows) = 2
    /\ ad.ret.rows[1].fastest_lap_rank = Null
    /\ ad.ret.rows[2].fastest_lap_rank = Str("2")
    /\ ad.ret.rows[2].fastest_lap_time = Null

---------------------------------------------------------------------------
(* Properties of the season run (checked under Spec)                       *)

\* collect_season_data has ended: by its last print or by an exception
SeasonEnded == season.pc \in {"done", "raised"}

IsLapsCall(e) == e.ev = "call" /\ e.what = "get_laps"
IsPitStopsCall(e) == e.ev = "call" /\ e.what = "get_pit_stops"

\* the arguments of the events of a log, in order
ArgsOf(events) == [i \in 1..Len(events) |-> events[i].arg]

\* the session keys of the first three Race-named sessions of the fetch
ExpectedKeys ==
    LET races == FilterEq(season.sessions.rows, "session_name", Str("Race"))
        first == SubSeq(races, 1, IF Len(races) < 3 THEN Len(races) ELSE 3)
    IN  [i \in 1..Len(first) |-> first[i].session_key]

\* C8: laps and pit stops are requested only for the Race-named sessions,
\* and only for the first three in the order of the sessions fetch: with n
\* Race-named sessions exactly min(n, 3) keys are queried, each once for laps
\* and once for pit stops.
C8_Sampling ==
    ( /\ SeasonEnded
      /\ season.sessions # Unset
      /\ {"session_name", "session_key"} \subseteq season.sessions.cols
      /\ \A i \in 1..Len(season.sessions.rows) :
            "session_key" \in DOMAIN season.sessions.rows[i] ) =>
        /\ ArgsOf(SelectSeq(season.log, IsLapsCall)) = ExpectedKeys
        /\ ArgsOf(SelectSeq(season.log, IsPitStopsCall)) = ExpectedKeys

\* the file that holds what an Ergast adapter returned
FileOf(adapter) ==
    CASE adapter = "get_race_results" -> "race_results"
      [] adapter = "get_qualifying_results" -> "qualifying"
      [] adapter = "get_driver_standings" -> "standings"

\* C9: the three Ergast fetches are independent: whichever of them fail, all
\* three are fetched and every one that returned a non-empty set is
\* persisted.
C9_ErgastIndependent ==
    SeasonEnded =>
        \A a \in ErgastAdapters :
            /\ \E i \in 1..Len(season.log) :
                  season.log[i].ev = "call" /\ season.log[i].what = a
            /\ \A i \in 1..Len(season.log) :
                  (season.log[i].ev = "call" /\ season.log[i].what = a
                        /\ season.log[i].n > 0) =>
                      \E j \in 1..Len(season.log) :
                          /\ season.log[j].ev = "save"
                          /\ season.log[j].what = FileOf(a)
                          /\ season.log[j].n = season.log[i].n

\* C10: whatever the upstream answers, collect_season_data reaches its final
\* 'Completed data collection' step: it never raises and never aborts early.
C10_AlwaysCompletes == season.pc # "raised"

\* the payload gives the adapter its list, every item of the list its
\* entries, and some entry has no Driver.driverId
LacksDriverId(adapter, data) ==
    /\ Has(data, "MRData")
    /\ Has(data.v.MRData, TableOf(adapter))
    /\ Has(data.v.MRData.v[TableOf(adapter)], ListOf(adapter))
    /\ LET list == data.v.MRData.v[TableOf(adapter)].v[ListOf(adapter)]
       IN  /\ IsArr(list)
           /\ \A i \in 1..Len(list.v) :
                 /\ Has(list.v[i], EntriesKeyOf(adapter))
                 /\ IsArr(list.v[i].v[EntriesKeyOf(adapter)])
           /\ \E i \in 1..Len(list.v) :
                 \E j \in 1..Len(list.v[i].v[EntriesKeyOf(adapter)].v) :
                    LET e == list.v[i].v[EntriesKeyOf(adapter)].v[j]
                    IN  ~Has(e, "Driver") \/ ~Has(e.v.Driver, "driverId")

\* an Ergast adapter of the run was served an entry without driverId
ServedEntryWithoutDriverId ==
    /\ season.pc # "idle"
    /\ season.served # Unset
    /\ season.log # <<>>
    /\ season.log[Len(season.log)].what \in ErgastAdapters
    /\ LacksDriverId(season.log[Len(season.log)].what, season.served)

\* C11: a result, qualifying or standings entry without driver_id is an
\* error of that endpoint only: the season run is not aborted, it still
\* makes the remaining fetches (the other Ergast endpoints and the sessions)
\* and completes.
C11_DriverIdConfined ==
    (SeasonEnded /\ ServedEntryWithoutDriverId) =>
        /\ season.pc = "done"
        /\ \A a \in ErgastAdapters \cup {"get_sessions"} :
              \E i \in 1..Len(season.log) :
                  season.log[i].ev = "call" /\ season.log[i].what = a

\* the events of the loop over the sampled sessions
IsLoopEvent(e) ==
    e.what \in {"get_laps", "laps", "get_pit_stops", "pit_stops", "rate_limit"}
LoopLog == SelectSeq(season.log, IsLoopEvent)

IsSleep(e) == e.ev = "sleep" /\ e.n = 1

\* the number of pauses among the first i events of a log
SleepsBefore(log, i) ==
    Cardinality({k \in 1..(i - 1) : log[k].ev = "sleep"})

\* event i of the loop log is where the order of the steps puts it
InLoopOrder(log, i) ==
    LET e == log[i]
        prev == log[i - 1]
        nth == SleepsBefore(log, i) + 1
    IN  CASE e.ev = "call" /\ e.what = "get_laps" ->
                /\ i > 1 => IsSleep(prev)
                /\ nth <= Len(season.race_sessions)
                /\ e.arg = CellOf(season.race_sessions[nth], "session_key")
          [] e.ev = "save" /\ e.what = "laps" ->
                /\ i > 1
                /\ prev.ev = "call" /\ prev.what = "get_laps"
                /\ prev.arg = e.arg /\ prev.n = e.n /\ e.n > 0
          [] e.ev = "call" /\ e.what = "get_pit_stops" ->
                /\ i > 1
                /\ prev.arg = e.arg
                /\ \/ prev.ev = "call" /\ prev.what = "get_laps" /\ prev.n = 0
                   \/ prev.ev = "save" /\ prev.what = "laps"
          [] e.ev = "save" /\ e.what = "pit_stops" ->
                /\ i > 1
                /\ prev.ev = "call" /\ prev.what = "get_pit_stops"
                /\ prev.arg = e.arg /\ prev.n = e.n /\ e.n > 0
          [] e.ev = "sleep" ->
                /\ i > 1
                /\ IsSleep(e)
                /\ \/ prev.ev = "call" /\ prev.what = "get_pit_stops" /\ prev.n = 0
                   \/ prev.ev = "save" /\ prev.what = "pit_stops"
          [] OTHER -> FALSE

\* C12: for each sampled race session the steps are, in this order: fetch
\* laps, persist laps if non-empty, fetch pit stops, persist pit stops if
\* non-empty, pause one second; no request of a later session comes before
\* the pause that follows the previous session, and no request of session
\* i+1 comes before a request of session i.
C12_LoopOrder ==
    season.pc # "idle" =>
        /\ LET loop == LoopLog
           IN  /\ \A i \in 1..Len(loop) : InLoopOrder(loop, i)
               /\ (season.pc = "done" /\ loop # <<>>) => IsSleep(loop[Len(loop)])
        /\ \A i \in 1..(Len(season.log) - 1) :
              IsLoopEvent(season.log[i]) => IsLoopEvent(season.log[i + 1])

\* a completed run over three sampled sessions: laps of the first are
\* saved, pit stops of the first are not, and three pauses were made
C12_Witness ==
    /\ season.pc = "done"
    /\ Len(season.race_sessions) = 3
    /\ SleepsBefore(LoopLog, Len(LoopLog) + 1) = 3
    /\ LoopLog[1] = Event("call", "get_laps", Num(9001), 1)
    /\ LoopLog[2] = Event("save", "laps", Num(9001), 1)
    /\ LoopLog[3] = Event("call", "get_pit_stops", Num(9001), 0)
    /\ LoopLog[4] = Event("sleep", "rate_limit", Null, 1)
    /\ LoopLog[5].arg # Num(9001)

\* the file that holds what an adapter returned
SavedAs(adapter) ==
    CASE adapter \in ErgastAdapters -> FileOf(adapter)
      [] adapter = "get_sessions" -> "sessions"
      [] adapter = "get_laps" -> "laps"
      [] adapter = "get_pit_stops" -> "pit_stops"

\* the saves of the run into the file of this adapter call
SavesOf(call) ==
    {j \in 1..Len(season.log) :
        /\ season.log[j].ev = "save"
        /\ season.log[j].what = SavedAs(call.what)
        /\ season.log[j].arg = call.arg}

\* C13: a record set is persisted if and only if its adapter returned it
\* non-empty: no save is made of an empty set, every non-empty set returned
\* by an adapter that was called is saved exactly once, and when the
\* sessions fetch returns an empty set no laps or pit-stop request is made.
C13_SaveIffNonEmpty ==
    SeasonEnded =>
        /\ \A j \in 1..Len(season.log) :
              season.log[j].ev = "save" =>
                  /\ season.log[j].n > 0
                  /\ \E i \in 1..(j - 1) :
                        /\ season.log[i].ev = "call"
                        /\ SavedAs(season.log[i].what) = season.log[j].what
                        /\ season.log[i].arg = season.log[j].arg
                        /\ season.log[i].n = season.log[j].n
        /\ \A i \in 1..Len(season.log) :
              (season.log[i].ev = "call" /\ season.log[i].n > 0) =>
                  Cardinality(SavesOf(season.log[i])) = 1
        /\ \A i \in 1..Len(season.log) :
              (season.log[i].ev = "call" /\ season.log[i].what = "get_sessions"
                    /\ season.log[i].n <= 0) =>
                  \A k \in 1..Len(season.log) :
                      season.log[k].what \notin {"get_laps", "get_pit_stops"}

\* the adapter calls of the run, in order
IsCall(e) == e.ev = "call"
CallsOf(log) == SelectSeq(log, IsCall)

\* the number of calls of one adapter in the run
CallCount(adapter) ==
    Cardinality({i \in 1..Len(season.log) :
        IsCall(season.log[i]) /\ season.log[i].what = adapter})

\* the adapter of call number i of a run: the three Ergast fetches, the
\* sessions fetch, then laps and pit stops in turn
AdapterOfCall(i) ==
    CASE i = 1 -> "get_race_results"
      [] i = 2 -> "get_qualifying_results"
      [] i = 3 -> "get_driver_standings"
      [] i = 4 -> "get_sessions"
      [] i > 4 /\ i % 2 = 1 -> "get_laps"
      [] i > 4 /\ i % 2 = 0 -> "get_pit_stops"

\* C14: one run of collect_season_data makes at most 10 adapter calls: the
\* three Ergast adapters and get_sessions at most once each, then get_laps
\* and get_pit_stops in turn, at most 3 times each; every adapter call makes
\* exactly one Transport call, and at most 30 GETs are issued in all,
\* whatever the upstream answers.
C14_CallVolume ==
    season.pc # "idle" =>
        LET calls == CallsOf(season.log)
        IN  /\ Len(calls) <= 10
            /\ \A i \in 1..Len(calls) : calls[i].what = AdapterOfCall(i)
            /\ season.requests = Len(calls)
            /\ season.gets >= season.requests
            /\ season.gets <= DefaultMaxRetries * season.requests
            /\ season.gets <= 30

\* a completed run of ten adapter calls, each of which took three GETs
C14_Witness ==
    /\ season.pc = "done"
    /\ Len(CallsOf(season.log)) = 10
    /\ CallCount("get_pit_stops") = 3
    /\ season.requests = 10
    /\ season.gets = 30

=============================================================================
